---- MODULE Spec2Model ----
(***************************************************************************)
(* NoTouchPadHotkeys: the LEFT-WINDOWS debounce filter.                    *)
(*                                                                         *)
(* The filter module (src/KeyboardHook.cpp) owns the global `data` block   *)
(* (LastKey, TimerID, Timeout, KeyState), the low-level keyboard hook      *)
(* NoEdgeKeyboardHook, the timer procedure NoEdgeWindowsKeyTimeout and     *)
(* SetTimerTick.  The host (src/unnamed/part_000) runs messageLoop on the  *)
(* one thread that owns the hook and the timer.                            *)
(*                                                                         *)
(* The Win32 facilities the code calls are modelled by what they are       *)
(* documented to do:                                                       *)
(*   SetTimer   creates a timer that elapses again and again until it is   *)
(*              killed, or fails and returns 0;                            *)
(*   KillTimer  destroys the timer but does not remove a WM_TIMER message  *)
(*              that is already in the thread's queue;                     *)
(*   SendInput  inserts the event into the keyboard input stream, from     *)
(*              where it is offered to the hook like any other key event;  *)
(*   the hook   is called while its thread retrieves messages.             *)
(*                                                                         *)
(* Spec        the filter while the host is in messageLoop;                *)
(* SpecHost    the host from the start of myMain to its exit, with the     *)
(*             filter running once the hook is installed;                  *)
(* SpecDllMain DllMain for every value of NoEdgeTimeout;                   *)
(* SpecDllInfo GetDllInfo for every placement of the module's functions.   *)
(***************************************************************************)
EXTENDS Integers, Sequences, FiniteSets, TLC

\* ---------------------------------------------------------------- bounds
MaxTick == 1
MaxExtra == 1
MaxTimerId == 2
MaxQueue == 1
MaxInflight == 2
MaxSteps == 3
MaxEnvLen == 5
MaxAddr == 6

\* ------------------------------------------------------ program constants
NoEdgeIdle == 0
NoEdgeWinPressed == 1
NoEdgeWaitWinRelease == 2
NoEdgeIgnoreKeyEvents == 3

LWin == 91
HC_ACTION == 0
WM_KEYDOWN == 256
WM_KEYUP == 257
WM_SYSKEYDOWN == 260
WM_SYSKEYUP == 261
WM_TIMER == 275
INPUT_KEYBOARD == 1
KEYEVENTF_EXTENDEDKEY == 1
AssumedSize == 1000
HostAssumedSize == 1000
SizeofData == 56
DefaultTimeout == 100
MinTimeout == 32
MaxTimeout == 1024

KeyStates == {NoEdgeIdle, NoEdgeWinPressed, NoEdgeWaitWinRelease, NoEdgeIgnoreKeyEvents}

\* ------------------------------------------------------------ input sets
\* time stamps of key events, and the (later) time stamp of a WM_TIMER
Ticks == 1..MaxTick
TimerTicks == {MaxTick + 1}
\* dwExtraInfo of a key event (the zero-initialised LastKey holds 0)
ExtraInfos == 1..MaxExtra
TimerIds == 1..MaxTimerId
HookCodes == {HC_ACTION, -1}
KeyMessages == {WM_KEYDOWN, WM_KEYUP, WM_SYSKEYDOWN, WM_SYSKEYUP}
\* 0x5b and one other code (0x1e / 'A')
ScanCodes == {LWin, 30}
VkCodes == {LWin, 65}
\* flags of a key event that comes from the keyboard driver: LLKHF_EXTENDED
\* (0x01) clear or set
HwFlags == {0, 1}

\* KBDLLHOOKSTRUCT.  The hook reads flags, time and dwExtraInfo of no event but
\* the LEFT-WINDOWS key-down, so only that event varies in them; when the code
\* is not HC_ACTION it reads nothing of the event.
PlainStruct(hs) == hs.flags = 0 /\ hs.time = 1 /\ hs.dwExtraInfo = 1

HookStructs ==
  { hs \in [vkCode : VkCodes, scanCode : ScanCodes, flags : HwFlags,
            time : Ticks, dwExtraInfo : ExtraInfos] :
      (hs.scanCode # LWin \/ hs.vkCode # LWin) => PlainStruct(hs) }

HookInputs ==
  { in \in [code : HookCodes, wp : KeyMessages, hs : HookStructs] :
      /\ in.wp # WM_KEYDOWN => PlainStruct(in.hs)
      /\ in.code # HC_ACTION => (PlainStruct(in.hs) /\ in.hs.scanCode = in.hs.vkCode) }

\* NoEdgeTimeout as the environment holds it: absent (<<>>) or a string of
\* characters (their codes).  The filter's runs use two of them, the runs of
\* DllMain alone every string of up to MaxEnvLen of the characters - 0 1 2 3 4.
EnvTimeouts == { <<>>, <<50, 48, 48>> }
EnvChars == {45, 48, 49, 50, 51, 52}
EnvStrings == UNION { [1..n -> EnvChars] : n \in 0..MaxEnvLen }

\* where the linker put the functions of the filter module and its data block
DllFunctions ==
  {"NoEdgeWindowsKeyTimeout", "SetTimerTick", "NoEdgeKeyboardHook", "DllMain",
   "GetDllInfo"}
Placements ==
  { p \in [DllFunctions \cup {"data"} -> 1..MaxAddr] :
      \A f, g \in DllFunctions : f # g => p[f] # p[g] }
HostPlacement ==
  [f \in DllFunctions \cup {"data"} |->
     IF f = "NoEdgeWindowsKeyTimeout" THEN 1
     ELSE IF f = "SetTimerTick" THEN 2
     ELSE IF f = "NoEdgeKeyboardHook" THEN 3
     ELSE IF f = "DllMain" THEN 4
     ELSE IF f = "GetDllInfo" THEN 5
     ELSE 1]

VARIABLES
  KeyState,    \* data.KeyState
  LastKey,     \* data.LastKey (INPUT)
  TimerID,     \* data.TimerID
  Timeout,     \* data.Timeout
  timers,      \* the timers of the thread that exist (id -> period)
  msgQueue,    \* messages posted to the thread's queue
  inflight,    \* events SendInput inserted, not yet offered to the hook
  pc,          \* where the host's thread is: in myMain ("main", "load",
               \* "resolve", "info", "lock", "install"), in messageLoop
               \* ("get" = in GetMessage, "dispatch"), or gone ("exit")
  msg,         \* the MSG GetMessage filled in (local to one turn of the loop)
  watch,       \* which observation a run records: "call", "cand" or "keys"
  lastCall,    \* observation: the last callback that ran and what it did
  cand,        \* observation: steps of the latest candidate sequence
  env,         \* the value of NoEdgeTimeout in the environment
  logSink,     \* the log of the module: "none" (a build without one) or
               \* "unavailable" (a logging build; fopen_s gives NULL)
  place,       \* addresses of the module's functions and data
  info,        \* addresses[] and minlength[] as GetDllInfo filled them
  host,        \* observation: what myMain and messageLoop did so far
  keyDown      \* observation: the latest WM_KEYDOWN or WM_KEYUP of the
               \* LEFT-WINDOWS key that an HC_ACTION call passed to the next
               \* hook was the WM_KEYDOWN

\* The observations record what the callbacks were given and what they did;
\* no action reads them.  A run records either every single call (lastCall)
\* or the course of the candidate sequences (cand).
hostVars == <<env, logSink, place, info>>
vars == <<KeyState, LastKey, TimerID, Timeout, timers, msgQueue, inflight,
          pc, msg, watch, lastCall, cand, env, logSink, place, info, host,
          keyDown>>

\* ------------------------------------------------------------- DllMain
\* atoi: an optional sign, then digits up to the first other character
IsDigit(c) == c \in 48..57
RECURSIVE atoiDigits(_, _)
atoiDigits(s, acc) ==
  IF s = <<>> \/ ~IsDigit(Head(s)) THEN acc
  ELSE atoiDigits(Tail(s), 10 * acc + (Head(s) - 48))
atoi(s) ==
  IF s # <<>> /\ Head(s) = 45 THEN 0 - atoiDigits(Tail(s), 0)
  ELSE atoiDigits(s, 0)

DllMainTimeout(buffer) ==
  IF Len(buffer) <= 0 \/ Len(buffer) >= 5 THEN DefaultTimeout
  ELSE IF atoi(buffer) < MinTimeout THEN MinTimeout
  ELSE IF atoi(buffer) > MaxTimeout THEN MaxTimeout
  ELSE atoi(buffer)

\* what DllMain returns for DLL_PROCESS_ATTACH: the builds that write a log
\* give up when the log cannot be opened, the build without a log never does
DllMainReturns(sink) == sink # "unavailable"

\* ---------------------------------------------------------- GetDllInfo
\* one comparison of GetDllInfo's minaddr / maxaddr search
Track_MinOnly(mm, current) ==
  IF current < mm.min THEN [mm EXCEPT !.min = current] ELSE mm

Track(mm, current) ==
  IF current < mm.min THEN [mm EXCEPT !.min = current]
  ELSE IF current > mm.max THEN [mm EXCEPT !.max = current]
  ELSE mm

\* one comparison of the search for the nearest function above maxaddr
Above(add, current, maxaddr) ==
  IF current > maxaddr /\ (add = 0 \/ current < maxaddr + add)
    THEN current - maxaddr
    ELSE add

\* addresses[0..1] and minlength[0..1]; the addresses of a module are far
\* from the end of the address space, so no sum wraps
GetDllInfo(p) ==
  LET first == p["NoEdgeWindowsKeyTimeout"]
      mm == Track(Track([min |-> first, max |-> first], p["SetTimerTick"]),
                  p["NoEdgeKeyboardHook"])
      add == Above(Above(0, p["DllMain"], mm.max), p["GetDllInfo"], mm.max)
  IN [addr0 |-> mm.min,
      len0 |-> mm.max - mm.min + (IF add > 0 THEN add ELSE AssumedSize),
      addr1 |-> p["data"],
      len1 |-> SizeofData]

NoInfo == [addr0 |-> 0, len0 |-> 0, addr1 |-> 0, len1 |-> 0]

\* -------------------------------------------------- GetFunctionAddress
\* the indexes myMain asks for: the hook, SetTimerTick, GetDllInfo
FunctionIndexes == {0, 1, 2}

\* ------------------------------------------------------------- myMain
\* The module found under the name NoEdgeShortcuts.dll need not be this
\* build: exported says whether GetProcAddress finds GetFunctionAddress,
\* funcs for which indexes that function gives an address.  -1 stands for
\* GetFunctionAddress itself in the set of what could not be resolved.
Missing(exported, funcs) ==
  IF exported THEN { i \in FunctionIndexes : i \notin funcs } ELSE {-1}

Resolved_HookOnly(exported, funcs) == exported /\ 0 \in funcs
Resolved(exported, funcs) == exported /\ \A i \in FunctionIndexes : i \in funcs

\* where the linker put the functions of the host (equal, messageLoop and
\* myMain, in the order of the source file)
HostLayout == [equal |-> 101, messageLoop |-> 102, myMain |-> 103]

\* loopsize, lines 106-110
LoopSize(lay) ==
  LET loopsize == lay.messageLoop
      progpos == IF lay.equal < loopsize THEN lay.myMain ELSE lay.equal
  IN IF lay.equal < loopsize /\ lay.myMain < loopsize
       THEN HostAssumedSize
       ELSE progpos - loopsize

\* the arguments of the three VirtualLock calls of line 111, in their order:
\* messageLoop, then the two ranges GetDllInfo stored (inf)
LockRanges(inf) ==
  << [addr |-> HostLayout.messageLoop, len |-> LoopSize(HostLayout)],
     [addr |-> inf.addr0, len |-> inf.len0],
     [addr |-> inf.addr1, len |-> inf.len1] >>

\* the VirtualLock calls line 111 makes when the call number failAt is the
\* first to return FALSE (0: none does): the operands of || after it are
\* not evaluated
LocksCalled(failAt) == IF failAt = 0 THEN 1..3 ELSE 1..failAt

\* where myMain goes on after the VirtualLock calls: a failure is only noted
AfterLock_Strict(ok) == IF ok THEN "install" ELSE "exit"
AfterLock(ok) == "install"

\* whether messageLoop ends for a result of GetMessage that is not positive
LoopEnds_NotPositive(ret) == ret <= 0
LoopEnds(ret) == ret = 0

\* whether messageLoop calls setTimerTick for a message it retrieved
LoopPatches_Always(m) == TRUE
LoopPatches(m) == m.message = WM_TIMER

\* what SetPriorityClass / SetThreadPriority came to: not asked for
\* (NoEdgePriority unset), already as asked, changed, or refused
PriorityOutcomes == {"unset", "kept", "raised", "failed"}

\* the record of a run of the host: outcome of each step of myMain, what
\* DllMain returned, the entry points that could not be resolved, the ranges
\* passed to VirtualLock, the result of the latest GetMessage, the argument of setTimerTick for the message it retrieved (0:
\* not called), and the exit code (-1 while the process runs)
NoHost ==
  [prio |-> "none", load |-> "none", attach |-> "none", resolve |-> "none",
   missing |-> {},
   lock |-> "none", submitted |-> {}, hook |-> "none", got |-> "none",
   tick |-> 0, code |-> -1]

\* the record of a host that went through myMain and is in messageLoop
InLoop ==
  [NoHost EXCEPT !.prio = "unset", !.load = "ok", !.attach = "true",
                 !.resolve = "ok",
                 !.lock = "ok",
                 !.submitted = { LockRanges(GetDllInfo(HostPlacement))[i] : i \in 1..3 },
                 !.hook = "ok"]

\* ------------------------------------------------- NoEdgeKeyboardHook
\* variant: one matching code is enough
IsWinKeyDown_Either(wp, hs) ==
  wp = WM_KEYDOWN /\ (hs.scanCode = LWin \/ hs.vkCode = LWin)

\* variant: WM_SYSKEYDOWN is taken for a key-down as well
IsWinKeyDown_Sys(wp, hs) ==
  wp \in {WM_KEYDOWN, WM_SYSKEYDOWN} /\ hs.scanCode = LWin /\ hs.vkCode = LWin

IsWinKeyDown(wp, hs) == wp = WM_KEYDOWN /\ hs.scanCode = LWin /\ hs.vkCode = LWin

\* variant: the virtual-key code is not compared
IsWinKeyUp_ScanOnly(wp, hs) == wp = WM_KEYUP /\ hs.scanCode = LWin

IsWinKeyUp(wp, hs) == wp = WM_KEYUP /\ hs.scanCode = LWin /\ hs.vkCode = LWin

\* data.KeyState when the hook returns, one operator per case label
CaseIdle(wp, hs) ==
  IF IsWinKeyDown(wp, hs) THEN NoEdgeWinPressed ELSE NoEdgeIdle

\* variant: case NoEdgeIgnoreKeyEvents without the key-up test
CaseIgnoreKeyEvents_Stays(wp, hs) == NoEdgeIgnoreKeyEvents

\* case NoEdgeIgnoreKeyEvents, which case NoEdgeWinPressed falls into
CaseIgnoreKeyEvents(wp, hs) ==
  IF IsWinKeyUp(wp, hs) THEN NoEdgeIdle ELSE NoEdgeIgnoreKeyEvents

\* variant: a break before the case NoEdgeIgnoreKeyEvents label
CaseWinPressed_NoFallThrough(wp, hs) ==
  IF ~IsWinKeyDown(wp, hs) THEN NoEdgeIgnoreKeyEvents ELSE NoEdgeWaitWinRelease

CaseWinPressed(wp, hs) ==
  IF ~IsWinKeyDown(wp, hs) THEN CaseIgnoreKeyEvents(wp, hs) ELSE NoEdgeWaitWinRelease

\* variant: the key-down condition of the Idle case copied instead of key-up
CaseWaitWinRelease_OnDown(wp, hs) ==
  IF IsWinKeyDown(wp, hs) THEN NoEdgeIdle ELSE NoEdgeWaitWinRelease

CaseWaitWinRelease(wp, hs) ==
  IF IsWinKeyUp(wp, hs) THEN NoEdgeIdle ELSE NoEdgeWaitWinRelease

\* variant: the switch is entered whatever the code is
HookKeyState_AnyCode(ks, code, wp, hs) ==
  IF ks = NoEdgeIdle THEN CaseIdle(wp, hs)
  ELSE IF ks = NoEdgeWinPressed THEN CaseWinPressed(wp, hs)
  ELSE IF ks = NoEdgeIgnoreKeyEvents THEN CaseIgnoreKeyEvents(wp, hs)
  ELSE CaseWaitWinRelease(wp, hs)

HookKeyState(ks, code, wp, hs) ==
  IF code # HC_ACTION THEN ks
  ELSE IF ks = NoEdgeIdle THEN CaseIdle(wp, hs)
  ELSE IF ks = NoEdgeWinPressed THEN CaseWinPressed(wp, hs)
  ELSE IF ks = NoEdgeIgnoreKeyEvents THEN CaseIgnoreKeyEvents(wp, hs)
  ELSE CaseWaitWinRelease(wp, hs)

\* variant: return -1 after the if/else of case NoEdgeWinPressed
HookConsumes_NoBreak(ks, code, wp, hs) ==
  /\ code = HC_ACTION
  /\ \/ ks = NoEdgeIdle /\ IsWinKeyDown(wp, hs)
     \/ ks = NoEdgeWinPressed
     \/ ks = NoEdgeIgnoreKeyEvents

\* variant: return -1 only inside the key-up test of case NoEdgeIgnoreKeyEvents
HookConsumes_UpOnly(ks, code, wp, hs) ==
  /\ code = HC_ACTION
  /\ \/ ks = NoEdgeIdle /\ IsWinKeyDown(wp, hs)
     \/ ks = NoEdgeWinPressed /\ ~IsWinKeyDown(wp, hs)
     \/ ks = NoEdgeIgnoreKeyEvents /\ IsWinKeyUp(wp, hs)

\* variant: case NoEdgeWaitWinRelease returns -1 for the key-up
HookConsumes_WaitUp(ks, code, wp, hs) ==
  /\ code = HC_ACTION
  /\ \/ ks = NoEdgeIdle /\ IsWinKeyDown(wp, hs)
     \/ ks = NoEdgeWinPressed /\ ~IsWinKeyDown(wp, hs)
     \/ ks = NoEdgeIgnoreKeyEvents
     \/ ks = NoEdgeWaitWinRelease /\ IsWinKeyUp(wp, hs)

\* variant: case NoEdgeIgnoreKeyEvents passes a key-down of the key on
HookConsumes_IgnoreDown(ks, code, wp, hs) ==
  /\ code = HC_ACTION
  /\ \/ ks = NoEdgeIdle /\ IsWinKeyDown(wp, hs)
     \/ ks = NoEdgeWinPressed /\ ~IsWinKeyDown(wp, hs)
     \/ ks = NoEdgeIgnoreKeyEvents /\ ~IsWinKeyDown(wp, hs)

\* variant: case NoEdgeWinPressed passes the key-up of the key on
HookConsumes_TapUp(ks, code, wp, hs) ==
  /\ code = HC_ACTION
  /\ \/ ks = NoEdgeIdle /\ IsWinKeyDown(wp, hs)
     \/ ks = NoEdgeWinPressed /\ ~IsWinKeyDown(wp, hs) /\ ~IsWinKeyUp(wp, hs)
     \/ ks = NoEdgeIgnoreKeyEvents

\* TRUE when the hook returns -1, FALSE when it returns CallNextHookEx(...)
HookConsumes(ks, code, wp, hs) ==
  /\ code = HC_ACTION
  /\ \/ ks = NoEdgeIdle /\ IsWinKeyDown(wp, hs)
     \/ ks = NoEdgeWinPressed /\ ~IsWinKeyDown(wp, hs)
     \/ ks = NoEdgeIgnoreKeyEvents

\* data.LastKey as the Idle branch fills it in
CaptureKey(hs) ==
  [type |-> INPUT_KEYBOARD,
   dwExtraInfo |-> hs.dwExtraInfo,
   dwFlags |-> KEYEVENTF_EXTENDEDKEY,
   time |-> hs.time,
   wScan |-> hs.scanCode % 65536,
   wVk |-> hs.vkCode % 65536]

\* the hook arms the timer: Idle and LEFT-WINDOWS key-down
HookSetsTimer(ks, code, wp, hs) ==
  code = HC_ACTION /\ ks = NoEdgeIdle /\ IsWinKeyDown(wp, hs)

\* variant: no KillTimer at all
HookKillsTimer_Never(ks, code, tid) == FALSE

\* variant: KillTimer sits in the branch taken when code is not HC_ACTION
HookKillsTimer_NotAction(ks, code, tid) ==
  code # HC_ACTION /\ ks = NoEdgeWinPressed /\ tid # 0

\* variant: KillTimer sits in case NoEdgeIgnoreKeyEvents
HookKillsTimer_InIgnore(ks, code, tid) ==
  code = HC_ACTION /\ ks = NoEdgeIgnoreKeyEvents /\ tid # 0

\* the hook kills the timer: WinPressed and a timer id is stored
HookKillsTimer(ks, code, tid) ==
  code = HC_ACTION /\ ks = NoEdgeWinPressed /\ tid # 0

\* -------------------------------------------- NoEdgeWindowsKeyTimeout
TimeoutSends_NotIdle(ks) == ks # NoEdgeIdle
TimeoutSends(ks) == ks = NoEdgeWinPressed

\* ------------------------------------------------------- SetTimerTick
\* variant: the call clears the flags of LastKey as well
SetTimerTick_ClearsFlags(lk, tick) == [lk EXCEPT !.time = tick, !.dwFlags = 0]

SetTimerTick(lk, tick) == [lk EXCEPT !.time = tick]

\* ----------------------------------------- the input stream (SendInput)
\* the key event the hook is offered for an injected INPUT
\* (KEYEVENTF_KEYUP is 0x0002; the event carries LLKHF_INJECTED, 0x10, and
\* LLKHF_EXTENDED, 0x01, when the INPUT has KEYEVENTF_EXTENDEDKEY)
EchoMessage(in) ==
  IF (in.dwFlags \div 2) % 2 = 1 THEN WM_KEYUP ELSE WM_KEYDOWN

EchoStruct(in) ==
  [vkCode |-> in.wVk, scanCode |-> in.wScan,
   flags |-> 16 + (IF in.dwFlags % 2 = KEYEVENTF_EXTENDEDKEY THEN 1 ELSE 0),
   time |-> in.time, dwExtraInfo |-> in.dwExtraInfo]

\* ----------------------------------------------------- observations
NoStruct == [vkCode |-> 0, scanCode |-> 0, flags |-> 0, time |-> 0, dwExtraInfo |-> 0]
NoInput == [type |-> 0, dwExtraInfo |-> 0, dwFlags |-> 0, time |-> 0, wScan |-> 0, wVk |-> 0]
NoMsg == [message |-> 0, wParam |-> 0, time |-> 0]

\* the static data block of the filter module
data ==
  [KeyState |-> KeyState, LastKey |-> LastKey, TimerID |-> TimerID,
   Timeout |-> Timeout]

NoData == [KeyState |-> NoEdgeIdle, LastKey |-> NoInput, TimerID |-> 0, Timeout |-> 0]

\* the latest call of the hook ("hook"), of SetTimerTick ("tick") or of the
\* timer procedure ("timer"); field data is the data block as SetTimerTick
\* found it, or as the hook found it when its code was not HC_ACTION
NoCall ==
  [op |-> "none", pre |-> NoEdgeIdle, code |-> 0, wp |-> 0, hs |-> NoStruct,
   ret |-> "none", next |-> NoStruct, nextWp |-> 0, nextCode |-> 0,
   elapse |-> 0, armed |-> 0, killed |-> 0, sent |-> NoInput, data |-> NoData]

\* what kind of key event the hook was offered
EvClass(wp, hs) ==
  IF hs.scanCode = LWin /\ hs.vkCode = LWin /\ wp = WM_KEYDOWN THEN "winDown"
  ELSE IF hs.scanCode = LWin /\ hs.vkCode = LWin /\ wp = WM_KEYUP THEN "winUp"
  ELSE IF ~(hs.scanCode = LWin /\ hs.vkCode = LWin) /\ wp \in {WM_KEYDOWN, WM_SYSKEYDOWN}
    THEN "otherDown"
  ELSE "other"

Injected(hs) == (hs.flags \div 16) % 2 = 1

\* one HC_ACTION call of the hook during a candidate sequence: the kind of
\* event, whether SendInput made it, what the hook did with it, the state it
\* left, and how many replays had been sent before it
HookStep(wp, hs, consumed, post, sent) ==
  [class |-> EvClass(wp, hs), inj |-> Injected(hs),
   out |-> IF consumed THEN "consumed" ELSE "next", post |-> post, sent |-> sent]

\* a candidate sequence runs from the Idle -> WinPressed transition until the
\* state is Idle again: the event that began it and what the hook did with
\* it, the first and the latest hook call after it, how many calls after it
\* were forwarded and how many consumed (each saturating at MaxSteps), the
\* number of SendInput calls and the INPUT of the last one (both without
\* their time stamps, which SetTimerTick replaces), and whether the candidate
\* sequence before it was a plain press of the key (key-down, one replay that
\* reached the hook, key-up)
StructSeen(hs) == [hs EXCEPT !.time = 0]
InputSeen(in) == [in EXCEPT !.time = 0]

NoStep ==
  [class |-> "none", inj |-> FALSE, out |-> "none", post |-> NoEdgeIdle, sent |-> 0]

NoCand ==
  [orig |-> NoStruct, out |-> "none", first |-> NoStep, last |-> NoStep,
   fwd |-> 0, cons |-> 0, sent |-> 0, replay |-> NoInput, again |-> FALSE]

Steps(c) == c.fwd + c.cons

PlainPress(c) ==
  /\ Steps(c) = 2
  /\ ~Injected(c.orig)
  /\ c.first.class = "winDown" /\ c.first.inj /\ c.first.sent = 1
  /\ c.last.class = "winUp" /\ ~c.last.inj

Min(a, b) == IF a < b THEN a ELSE b

Logged(c, step) ==
  [c EXCEPT !.first = IF Steps(c) = 0 THEN step ELSE @,
            !.last = step,
            !.fwd = IF step.out = "next" THEN Min(@ + 1, MaxSteps) ELSE @,
            !.cons = IF step.out = "consumed" THEN Min(@ + 1, MaxSteps) ELSE @]

\* ------------------------------------------------------------- Init
Init ==
  /\ KeyState = NoEdgeIdle
  /\ LastKey = NoInput
  /\ TimerID = 0
  /\ env \in EnvTimeouts
  /\ Timeout = DllMainTimeout(env)
  /\ timers = {}
  /\ msgQueue = <<>>
  /\ inflight = <<>>
  /\ pc = "get"
  /\ msg = NoMsg
  /\ watch \in {"call", "cand", "keys"}
  /\ keyDown = FALSE
  /\ lastCall = NoCall
  /\ cand = NoCand
  /\ logSink = "none"
  /\ place = HostPlacement
  /\ info = GetDllInfo(place)
  /\ host = InLoop

\* ---------------------------------------------------------- actions
\* One call of NoEdgeKeyboardHook(code, wp, lp); id is what SetTimer returns
\* when the hook calls it.
Hook(code, wp, hs, id) ==
  LET ks == KeyState
      begins == HookSetsTimer(ks, code, wp, hs)
      kills == HookKillsTimer(ks, code, TimerID)
      consumed == HookConsumes(ks, code, wp, hs)
  IN
  /\ pc = "get"
  /\ KeyState' = HookKeyState(ks, code, wp, hs)
  /\ LastKey' = IF begins THEN CaptureKey(hs) ELSE LastKey
  /\ TimerID' = IF begins THEN id ELSE TimerID
  /\ timers' = IF begins THEN (IF id = 0 THEN timers ELSE timers \cup {id})
               ELSE IF kills THEN timers \ {TimerID}
               ELSE timers
  /\ lastCall' =
       IF watch # "call" THEN lastCall ELSE
       [NoCall EXCEPT !.op = "hook", !.pre = ks, !.code = code, !.wp = wp,
          !.hs = hs,
          !.ret = IF consumed THEN "consumed" ELSE "next",
          !.next = IF consumed THEN NoStruct ELSE hs,
          !.nextWp = IF consumed THEN 0 ELSE wp,
          !.nextCode = IF consumed THEN 0 ELSE code,
          !.elapse = IF begins THEN Timeout ELSE 0,
          !.armed = IF begins THEN id ELSE 0,
          !.killed = IF kills THEN TimerID ELSE 0,
          !.data = IF code # HC_ACTION THEN data ELSE NoData]
  /\ cand' =
       IF watch # "cand" \/ code # HC_ACTION THEN cand
       ELSE IF begins THEN
         [NoCand EXCEPT !.orig = StructSeen(hs),
                        !.out = IF consumed THEN "consumed" ELSE "next",
                        !.again = PlainPress(cand)]
       ELSE IF ks = NoEdgeIdle THEN cand
       ELSE Logged(cand, HookStep(wp, hs, consumed, HookKeyState(ks, code, wp, hs),
                                  cand.sent))
  /\ keyDown' =
       IF watch = "keys" /\ code = HC_ACTION /\ ~consumed
          /\ (IsWinKeyDown(wp, hs) \/ IsWinKeyUp(wp, hs))
         THEN IsWinKeyDown(wp, hs)
         ELSE keyDown
  /\ UNCHANGED <<Timeout, msgQueue, pc, msg, watch, hostVars, host>>

\* What SetTimer(NULL, 0, ...) may return: 0 (failure) or the id of the new
\* timer.  The code compares an id with 0 only, so the new id is taken to be
\* the smallest one that no existing timer has.
SetTimerResults ==
  {0} \cup { id \in TimerIds \ timers : \A j \in TimerIds \ timers : id <= j }

\* a key event from the keyboard driver reaches the hook
HookEvent ==
  \E in \in HookInputs, id \in SetTimerResults :
    /\ (~HookSetsTimer(KeyState, in.code, in.wp, in.hs) => id = 0)
    /\ Hook(in.code, in.wp, in.hs, id)
    /\ UNCHANGED inflight

\* an event that SendInput inserted reaches the hook
HookEcho ==
  /\ inflight # <<>>
  /\ \E id \in SetTimerResults :
       LET in == Head(inflight) IN
       /\ (~HookSetsTimer(KeyState, HC_ACTION, EchoMessage(in), EchoStruct(in)) => id = 0)
       /\ Hook(HC_ACTION, EchoMessage(in), EchoStruct(in), id)
  /\ inflight' = Tail(inflight)

\* the period of a timer elapses while the thread waits in GetMessage: the
\* thread gets a WM_TIMER
TimerElapse ==
  \E id \in timers, t \in TimerTicks :
    /\ pc = "get"
    /\ Len(msgQueue) < MaxQueue
    /\ \A i \in 1..Len(msgQueue) : msgQueue[i].wParam # id
    /\ msgQueue' = Append(msgQueue, [message |-> WM_TIMER, wParam |-> id, time |-> t])
    /\ UNCHANGED <<KeyState, LastKey, TimerID, Timeout, timers, inflight, pc,
                   msg, watch, keyDown, lastCall, cand, hostVars, host>>

\* messageLoop: GetMessage returns > 0; SetTimerTick for a WM_TIMER
LoopGetMessage ==
  /\ pc = "get"
  /\ msgQueue # <<>>
  /\ msg' = Head(msgQueue)
  /\ msgQueue' = Tail(msgQueue)
  /\ LastKey' = IF LoopPatches(Head(msgQueue))
                  THEN SetTimerTick(LastKey, Head(msgQueue).time)
                  ELSE LastKey
  /\ host' = IF watch = "host"
               THEN [host EXCEPT !.got = "message",
                                 !.tick = IF LoopPatches(Head(msgQueue))
                                            THEN Head(msgQueue).time ELSE 0]
               ELSE host
  /\ lastCall' = IF watch = "call" /\ Head(msgQueue).message = WM_TIMER
                   THEN [NoCall EXCEPT !.op = "tick", !.pre = KeyState,
                                       !.data = data]
                   ELSE lastCall
  /\ pc' = "dispatch"
  /\ UNCHANGED <<KeyState, TimerID, Timeout, timers, inflight, watch, keyDown, cand,
                 hostVars>>

\* messageLoop: DispatchMessage calls NoEdgeWindowsKeyTimeout for a WM_TIMER
LoopDispatchMessage ==
  LET sends == msg.message = WM_TIMER /\ TimeoutSends(KeyState) IN
  /\ pc = "dispatch"
  /\ sends => Len(inflight) < MaxInflight
  /\ inflight' = IF sends THEN Append(inflight, LastKey) ELSE inflight
  /\ lastCall' = IF watch = "call" /\ msg.message = WM_TIMER
                   THEN [NoCall EXCEPT !.op = "timer", !.pre = KeyState,
                           !.sent = IF sends THEN LastKey ELSE NoInput,
                           !.ret = IF sends THEN "sent" ELSE "nothing"]
                   ELSE lastCall
  /\ cand' = IF watch = "cand" /\ sends
               THEN [cand EXCEPT !.sent = cand.sent + 1, !.replay = InputSeen(LastKey)]
               ELSE cand
  /\ pc' = "get"
  /\ msg' = NoMsg
  /\ UNCHANGED <<KeyState, LastKey, TimerID, Timeout, timers, msgQueue, watch, keyDown,
                 hostVars, host>>

Next ==
  \/ HookEvent
  \/ HookEcho
  \/ TimerElapse
  \/ LoopGetMessage
  \/ LoopDispatchMessage

Spec == Init /\ [][Next]_vars

\* ------------------------------------------------- the host from its start
\* the filter module before DllMain ran and the thread before messageLoop
Unloaded ==
  /\ KeyState = NoEdgeIdle
  /\ LastKey = NoInput
  /\ TimerID = 0
  /\ Timeout = 0
  /\ timers = {}
  /\ msgQueue = <<>>
  /\ inflight = <<>>
  /\ msg = NoMsg
  /\ watch = "host"
  /\ keyDown = FALSE
  /\ lastCall = NoCall
  /\ cand = NoCand
  /\ info = NoInfo
  /\ host = NoHost

InitHost ==
  /\ Unloaded
  /\ pc = "main"
  /\ env \in EnvTimeouts
  /\ logSink \in {"none", "unavailable"}
  /\ place = HostPlacement

\* myMain, lines 55-81: the priority class and the thread priority
MainPriority ==
  /\ pc = "main"
  /\ \E p \in PriorityOutcomes : host' = [host EXCEPT !.prio = p]
  /\ pc' = "load"
  /\ UNCHANGED <<KeyState, LastKey, TimerID, Timeout, timers, msgQueue, inflight,
                 msg, watch, keyDown, lastCall, cand, hostVars>>

\* LoadLibrary runs DllMain(DLL_PROCESS_ATTACH) and gives NULL when the module
\* is not found or DllMain returns FALSE; myMain then leaves with code 1
LoadLibrary ==
  /\ pc = "load"
  /\ \E found \in BOOLEAN :
       IF found /\ DllMainReturns(logSink)
         THEN /\ Timeout' = DllMainTimeout(env)
              /\ KeyState' = NoEdgeIdle
              /\ host' = [host EXCEPT !.load = "ok", !.attach = "true"]
              /\ pc' = "resolve"
         ELSE /\ UNCHANGED <<Timeout, KeyState>>
              /\ host' = [host EXCEPT !.load = "failed",
                                      !.attach = IF found THEN "false" ELSE "none",
                                      !.code = 1]
              /\ pc' = "exit"
  /\ UNCHANGED <<LastKey, TimerID, timers, msgQueue, inflight, msg, watch, keyDown,
                 lastCall, cand, hostVars>>

\* GetProcAddress and the three calls of getFunctionAddress, lines 87-102
ResolveEntryPoints ==
  /\ pc = "resolve"
  /\ \E exported \in BOOLEAN, funcs \in SUBSET FunctionIndexes :
       /\ (~exported => funcs = {})
       /\ IF Resolved(exported, funcs)
            THEN /\ host' = [host EXCEPT !.resolve = "ok",
                                         !.missing = Missing(exported, funcs)]
                 /\ pc' = "info"
            ELSE /\ host' = [host EXCEPT !.resolve = "failed",
                                         !.missing = Missing(exported, funcs),
                                         !.code = 2]
                 /\ pc' = "exit"
  /\ UNCHANGED <<KeyState, LastKey, TimerID, Timeout, timers, msgQueue, inflight,
                 msg, watch, keyDown, lastCall, cand, hostVars>>

\* GetDllInfo(addresses, minlength), line 105
CallGetDllInfo ==
  /\ pc = "info"
  /\ info' = GetDllInfo(place)
  /\ pc' = "lock"
  /\ UNCHANGED <<KeyState, LastKey, TimerID, Timeout, timers, msgQueue, inflight,
                 msg, watch, keyDown, lastCall, cand, env, logSink, place, host>>

\* the three VirtualLock calls, lines 106-112: a failure is only noted
LockMemory ==
  /\ pc = "lock"
  /\ \E failAt \in 0..3 :
       LET ok == failAt = 0 IN
       /\ host' = [host EXCEPT
                     !.lock = IF ok THEN "ok" ELSE "failed",
                     !.submitted = { LockRanges(info)[i] : i \in LocksCalled(failAt) }]
       /\ pc' = AfterLock(ok)
  /\ UNCHANGED <<KeyState, LastKey, TimerID, Timeout, timers, msgQueue, inflight,
                 msg, watch, keyDown, lastCall, cand, hostVars>>

\* SetWindowsHookExA, lines 114-118
InstallHook ==
  /\ pc = "install"
  /\ \E ok \in BOOLEAN :
       IF ok
         THEN host' = [host EXCEPT !.hook = "ok"] /\ pc' = "get"
         ELSE host' = [host EXCEPT !.hook = "failed", !.code = 3] /\ pc' = "exit"
  /\ UNCHANGED <<KeyState, LastKey, TimerID, Timeout, timers, msgQueue, inflight,
                 msg, watch, keyDown, lastCall, cand, hostVars>>

\* a message that is not a WM_TIMER is posted to the thread (number 0x8000)
PostedMessages == {32768}
PostMessage ==
  \E m \in PostedMessages, t \in TimerTicks :
    /\ pc = "get"
    /\ Len(msgQueue) < MaxQueue
    /\ msgQueue' = Append(msgQueue, [message |-> m, wParam |-> 0, time |-> t])
    /\ UNCHANGED <<KeyState, LastKey, TimerID, Timeout, timers, inflight, pc,
                   msg, watch, keyDown, lastCall, cand, hostVars, host>>

\* messageLoop: GetMessage returns 0 (WM_QUIT): the loop ends and myMain
\* calls exit(0); or it returns -1: nothing is done and the loop goes on
LoopGetMessageNone ==
  /\ pc = "get"
  /\ \E ret \in {0, -1} :
       /\ host' = [host EXCEPT !.got = IF ret = 0 THEN "quit" ELSE "error",
                               !.tick = 0,
                               !.code = IF LoopEnds(ret) THEN 0 ELSE @]
       /\ pc' = IF LoopEnds(ret) THEN "exit" ELSE "get"
  /\ UNCHANGED <<KeyState, LastKey, TimerID, Timeout, timers, msgQueue, inflight,
                 msg, watch, keyDown, lastCall, cand, hostVars>>

NextHost ==
  \/ MainPriority
  \/ LoadLibrary
  \/ ResolveEntryPoints
  \/ CallGetDllInfo
  \/ LockMemory
  \/ InstallHook
  \/ HookEvent
  \/ HookEcho
  \/ TimerElapse
  \/ PostMessage
  \/ LoopGetMessage
  \/ LoopGetMessageNone
  \/ LoopDispatchMessage

SpecHost == InitHost /\ [][NextHost]_vars

\* ------------------------------------------------ DllMain on its own
InitDllMain ==
  /\ Unloaded
  /\ pc = "load"
  /\ env \in EnvStrings
  /\ logSink = "none"
  /\ place = HostPlacement

SpecDllMain == InitDllMain /\ [][LoadLibrary]_vars

\* --------------------------------------------- GetDllInfo on its own
InitDllInfo ==
  /\ Unloaded
  /\ pc = "info"
  /\ env = <<>>
  /\ logSink = "none"
  /\ place \in Placements

SpecDllInfo == InitDllInfo /\ [][CallGetDllInfo]_vars

\* ------------------------------------------------------------ claims
\* Helpers of the formulas below.  "Event" means an HC_ACTION call of the hook.
IsHookCall == watch = "call" /\ lastCall.op = "hook"
IsEvent == IsHookCall /\ lastCall.code = HC_ACTION
IsLWin(hs) == hs.scanCode = LWin /\ hs.vkCode = LWin
Forwarded ==
  /\ lastCall.ret = "next"
  /\ lastCall.next = lastCall.hs
  /\ lastCall.nextWp = lastCall.wp
  /\ lastCall.nextCode = lastCall.code
Suppressed == lastCall.ret = "consumed" /\ lastCall.next = NoStruct
Extended(flags) == flags % 2 = 1
NSteps == Steps(cand)

\* C1 (as claimed): a LEFT-WINDOWS key-down accepted in Idle and followed by no
\* other key event until the timer procedure has run results in exactly one
\* SendInput whose INPUT carries the scan code, the virtual-key code and the
\* (extended-key) flag of the original, and the original is not forwarded.
C1_Solitary ==
  /\ watch = "cand"
  /\ KeyState = NoEdgeWinPressed
  /\ NSteps = 0
  /\ cand.sent >= 1
C1_AsClaimed ==
  C1_Solitary =>
    /\ cand.sent = 1
    /\ cand.replay.wScan = cand.orig.scanCode
    /\ cand.replay.wVk = cand.orig.vkCode
    /\ Extended(cand.replay.dwFlags) = Extended(cand.orig.flags)
    /\ cand.out = "consumed"

\* C2: when the first event after a LEFT-WINDOWS key-down accepted in Idle is
\* a key-down of another key and the timer procedure has not sent a replay
\* before it, no replay is ever sent for that press, the press and every
\* later event up to and including the next LEFT-WINDOWS key-up are
\* suppressed, the state is IgnoreKeyEvents until that key-up and Idle after.
C2_Case ==
  /\ watch = "cand"
  /\ NSteps >= 1
  /\ cand.first.class = "otherDown"
  /\ cand.first.sent = 0
C2_Suppressed ==
  C2_Case =>
    /\ cand.sent = 0
    /\ cand.fwd = 0
    /\ cand.out = "consumed"
    /\ cand.first.post = NoEdgeIgnoreKeyEvents
    /\ KeyState \in {NoEdgeIgnoreKeyEvents, NoEdgeIdle}
    /\ KeyState = NoEdgeIdle <=> cand.last.class = "winUp"
C2_Witness ==
  /\ C2_Case
  /\ NSteps = 2
  /\ cand.last.class = "winUp"
  /\ KeyState = NoEdgeIdle

\* C3: in Idle every call of the hook for an event that is not of the
\* LEFT-WINDOWS key (scan code or virtual-key code differs from 0x5b) is
\* passed to CallNextHookEx with the same code, wParam and event, and the
\* state stays Idle.
C3_IdleForwards ==
  (IsHookCall /\ lastCall.pre = NoEdgeIdle /\ ~IsLWin(lastCall.hs)) =>
    Forwarded /\ KeyState = NoEdgeIdle
C3_Witness ==
  /\ IsEvent
  /\ lastCall.pre = NoEdgeIdle
  /\ lastCall.wp = WM_KEYDOWN
  /\ lastCall.hs.scanCode = LWin
  /\ lastCall.hs.vkCode # LWin
  /\ Forwarded
  /\ KeyState = NoEdgeIdle

\* C4 (as claimed): in Idle a key-down with scan code and virtual-key code
\* 0x5b is suppressed, its attributes (virtual-key code, scan code,
\* extended-key flag, extra data, time stamp) are copied into LastKey, a timer
\* of Timeout ms is requested and its id stored, and the state becomes
\* WinPressed.
C4_Case ==
  /\ IsEvent
  /\ lastCall.pre = NoEdgeIdle
  /\ lastCall.wp = WM_KEYDOWN
  /\ IsLWin(lastCall.hs)
C4_AsClaimed ==
  C4_Case =>
    /\ Suppressed
    /\ KeyState = NoEdgeWinPressed
    /\ lastCall.elapse = Timeout
    /\ TimerID = lastCall.armed
    /\ lastCall.armed # 0 => lastCall.armed \in timers
    /\ LastKey.wVk = lastCall.hs.vkCode
    /\ LastKey.wScan = lastCall.hs.scanCode
    /\ LastKey.dwExtraInfo = lastCall.hs.dwExtraInfo
    /\ LastKey.time = lastCall.hs.time
    /\ Extended(LastKey.dwFlags) = Extended(lastCall.hs.flags)

\* C5 (as claimed): when the first event after a LEFT-WINDOWS key-down
\* accepted in Idle is another LEFT-WINDOWS key-down and no replay was sent
\* before it, the state becomes WaitWinRelease and both key-downs are
\* forwarded; a later LEFT-WINDOWS key-up returns the state to Idle.
C5_Case ==
  /\ watch = "cand"
  /\ NSteps >= 1
  /\ cand.first.class = "winDown"
  /\ cand.first.sent = 0
C5_Rest ==
  /\ cand.first.out = "next"
  /\ cand.first.post = NoEdgeWaitWinRelease
  /\ cand.cons = 0
  /\ KeyState \in {NoEdgeWaitWinRelease, NoEdgeIdle}
  /\ KeyState = NoEdgeIdle <=> cand.last.class = "winUp"
C5_AsClaimed == C5_Case => (cand.out = "next" /\ C5_Rest)
\* C5 (amended): ... the state becomes WaitWinRelease; the first key-down is
\* suppressed and only the second is forwarded; a later LEFT-WINDOWS key-up
\* returns the state to Idle.
C5_Amended == C5_Case => (cand.out = "consumed" /\ C5_Rest)
C5_Witness ==
  /\ C5_Case
  /\ ~cand.first.inj
  /\ NSteps = 2
  /\ cand.last.class = "winUp"
  /\ KeyState = NoEdgeIdle

\* C6: every repetition of [LEFT-WINDOWS key-down in Idle, the timer procedure
\* runs once and its replay reaches the hook, LEFT-WINDOWS key-up] has the same
\* outcome, whatever candidate sequences came before: the original
\* key-down is suppressed, exactly one replay is sent and it is the one
\* key-down forwarded, the key-up is forwarded, and the state is Idle.
C6_Repetition == watch = "cand" /\ PlainPress(cand)
C7_Case == IsEvent /\ lastCall.pre = NoEdgeWinPressed
C7_IsDown == lastCall.wp = WM_KEYDOWN /\ IsLWin(lastCall.hs)
C7_IsUp == lastCall.wp = WM_KEYUP /\ IsLWin(lastCall.hs)
C7_AsClaimed ==
  C7_Case =>
    IF C7_IsDown THEN Forwarded /\ KeyState = NoEdgeWaitWinRelease
    ELSE Suppressed /\ KeyState = NoEdgeIgnoreKeyEvents
\* C7 (amended): in WinPressed an event other than a LEFT-WINDOWS key-down is
\* suppressed and leaves the state IgnoreKeyEvents, except a LEFT-WINDOWS
\* key-up, which is suppressed and leaves the state Idle; a LEFT-WINDOWS
\* key-down is forwarded and leaves the state WaitWinRelease.
C7_Amended ==
  C7_Case =>
    IF C7_IsDown THEN Forwarded /\ KeyState = NoEdgeWaitWinRelease
    ELSE IF C7_IsUp THEN Suppressed /\ KeyState = NoEdgeIdle
    ELSE Suppressed /\ KeyState = NoEdgeIgnoreKeyEvents
C7_Witness == C7_Case /\ C7_IsUp /\ Suppressed /\ KeyState = NoEdgeIdle

\* C8: in IgnoreKeyEvents every event is suppressed (CallNextHookEx is not
\* called); the state changes only on a LEFT-WINDOWS key-up, which is
\* suppressed too and leaves the state Idle.
C8_Case == IsEvent /\ lastCall.pre = NoEdgeIgnoreKeyEvents
C8_IgnoreSuppresses ==
  C8_Case =>
    /\ Suppressed
    /\ KeyState = IF lastCall.wp = WM_KEYUP /\ IsLWin(lastCall.hs)
                    THEN NoEdgeIdle ELSE NoEdgeIgnoreKeyEvents
C8_Witness ==
  /\ C8_Case
  /\ lastCall.wp = WM_KEYUP /\ IsLWin(lastCall.hs)
  /\ Suppressed
  /\ KeyState = NoEdgeIdle

\* C9: in WaitWinRelease every event, the LEFT-WINDOWS key-up included, is
\* passed to CallNextHookEx unchanged; the state changes only on a
\* LEFT-WINDOWS key-up, which leaves the state Idle.
C9_Case == IsEvent /\ lastCall.pre = NoEdgeWaitWinRelease
C9_WaitForwards ==
  C9_Case =>
    /\ Forwarded
    /\ KeyState = IF lastCall.wp = WM_KEYUP /\ IsLWin(lastCall.hs)
                    THEN NoEdgeIdle ELSE NoEdgeWaitWinRelease
C9_Witness ==
  /\ C9_Case
  /\ lastCall.wp = WM_KEYUP /\ IsLWin(lastCall.hs)
  /\ Forwarded
  /\ KeyState = NoEdgeIdle

\* C10 (as claimed): in one candidate sequence the timer procedure sends at
\* most one replay, however long no key event reaches the hook.
C10_AsClaimed == watch = "cand" => cand.sent <= 1

\* C11: a run of the timer procedure calls SendInput exactly when the state
\* is WinPressed at that moment; a WM_TIMER dispatched after the state has
\* gone on to IgnoreKeyEvents, WaitWinRelease or Idle sends nothing.
IsTimerCall == watch = "call" /\ lastCall.op = "timer"
C11_TimerGuard ==
  IsTimerCall =>
    IF lastCall.pre = NoEdgeWinPressed
      THEN lastCall.ret = "sent" /\ lastCall.sent = LastKey
      ELSE lastCall.ret = "nothing" /\ lastCall.sent = NoInput
C11_Witness ==
  /\ IsTimerCall
  /\ lastCall.pre = NoEdgeIgnoreKeyEvents
  /\ lastCall.ret = "nothing"
  /\ TimerID # 0

\* C12 (as claimed): every INPUT given to SendInput carries the virtual-key
\* code, the scan code, the extended-key flag and the extra data of the
\* LEFT-WINDOWS key-down that began the current candidate sequence.
C12_Case == watch = "cand" /\ cand.sent >= 1
C12_AsClaimed ==
  C12_Case =>
    /\ cand.replay.wVk = cand.orig.vkCode
    /\ cand.replay.wScan = cand.orig.scanCode
    /\ cand.replay.dwExtraInfo = cand.orig.dwExtraInfo
    /\ Extended(cand.replay.dwFlags) = Extended(cand.orig.flags)

\* C13 (as claimed): when NoEdgeTimeout holds the decimal text of an integer v
\* (an optional minus sign and digits), DllMain sets Timeout to 32 if v < 32,
\* to 1024 if v > 1024 and to v otherwise; when the variable is absent
\* Timeout is 100.
IsInteger(s) ==
  /\ s # <<>>
  /\ LET digits == IF s[1] = 45 THEN Tail(s) ELSE s IN
       /\ digits # <<>>
       /\ \A i \in 1..Len(digits) : IsDigit(digits[i])
       /\ digits[1] = 48 => s = <<48>>
RECURSIVE DecimalValue(_)
DecimalValue(digits) ==
  IF digits = <<>> THEN 0
  ELSE 10 * DecimalValue(SubSeq(digits, 1, Len(digits) - 1))
       + (digits[Len(digits)] - 48)
IntegerValue(s) ==
  IF s[1] = 45 THEN 0 - DecimalValue(Tail(s)) ELSE DecimalValue(s)
Clamped(v) == IF v < 32 THEN 32 ELSE IF v > 1024 THEN 1024 ELSE v
C13_Attached == pc = "resolve" /\ host.load = "ok"
C13_AsClaimed ==
  C13_Attached =>
    IF env = <<>> THEN Timeout = 100
    ELSE IsInteger(env) => Timeout = Clamped(IntegerValue(env))

\* C14: wherever the functions of the module lie, GetDllInfo reports lengths
\* that are not negative for both ranges, the address of data for the second,
\* and a first range [addresses[0], addresses[0] + minlength[0]) that holds
\* the entry addresses of NoEdgeKeyboardHook, NoEdgeWindowsKeyTimeout and
\* SetTimerTick.
C14_Called == pc = "lock"
C14_Entries == {"NoEdgeKeyboardHook", "NoEdgeWindowsKeyTimeout", "SetTimerTick"}
C14_Brackets ==
  C14_Called =>
    /\ info.len0 >= 0
    /\ info.len1 >= 0
    /\ info.addr1 = place["data"]
    /\ \A f \in C14_Entries :
         info.addr0 <= place[f] /\ place[f] < info.addr0 + info.len0
C14_Witness ==
  /\ C14_Called
  /\ place["SetTimerTick"] < place["NoEdgeWindowsKeyTimeout"]
  /\ place["NoEdgeWindowsKeyTimeout"] < place["NoEdgeKeyboardHook"]
  /\ place["NoEdgeKeyboardHook"] < place["DllMain"]
  /\ info.addr0 = place["SetTimerTick"]
  /\ info.addr0 + info.len0 = place["DllMain"]

\* C15: myMain leaves with code 1 when LoadLibrary fails, with code 2 when
\* GetFunctionAddress or one of the three entry points cannot be resolved, and
\* with code 3 when SetWindowsHookExA fails; in each case the thread never
\* reaches messageLoop, and with codes 1 and 2 SetWindowsHookExA is not called.
C15_NoLoop == pc = "exit" /\ host.got = "none"
C15_ExitCodes ==
  /\ host.load = "failed" => (C15_NoLoop /\ host.code = 1 /\ host.hook = "none")
  /\ host.missing # {} => (C15_NoLoop /\ host.code = 2 /\ host.hook = "none")
  /\ host.hook = "failed" => (C15_NoLoop /\ host.code = 3)
  /\ host.code \in {1, 2, 3} => host.hook # "ok"
C15_Witness ==
  /\ host.load = "ok"
  /\ host.missing = {1}
  /\ host.code = 2
  /\ host.hook = "none"
  /\ pc = "exit"

\* C16: for every WM_TIMER that GetMessage retrieved, setTimerTick was called
\* with the time of that message before it is dispatched, so LastKey carries
\* that time when the timer procedure runs; for a message of another kind
\* setTimerTick is not called.
C16_Retrieved == watch = "host" /\ pc = "dispatch"
C16_PatchFirst ==
  C16_Retrieved =>
    /\ host.got = "message"
    /\ IF msg.message = WM_TIMER
         THEN host.tick = msg.time /\ LastKey.time = msg.time
         ELSE host.tick = 0
C16_Witness ==
  /\ C16_Retrieved
  /\ msg.message = WM_TIMER
  /\ KeyState = NoEdgeWinPressed
  /\ host.tick = msg.time
  /\ LastKey.time = msg.time

\* C17: messageLoop ends only when GetMessage returns 0, and the process then
\* exits with code 0; a positive result is dispatched and the loop goes on; a
\* negative result is not dispatched and does not end the loop.
C17_InLoop == watch = "host" /\ host.hook = "ok"
C17_LoopEnds ==
  C17_InLoop =>
    /\ pc = "exit" <=> host.got = "quit"
    /\ pc = "exit" => host.code = 0
    /\ pc # "exit" => host.code = -1
    /\ pc = "dispatch" => (host.got = "message" /\ msg # NoMsg)
    /\ host.got = "error" => (pc = "get" /\ msg = NoMsg)
C17_Witness ==
  /\ C17_InLoop
  /\ pc = "exit"
  /\ host.got = "quit"
  /\ host.code = 0
  /\ TimerID # 0

\* C18 (as claimed): when SetTimer fails for a LEFT-WINDOWS key-down accepted
\* in Idle (TimerID is 0), the key-down is suppressed, the state has become
\* WinPressed, and no SendInput is ever made in that candidate sequence.
C18_ArmingFailed == watch = "cand" /\ cand.out # "none" /\ TimerID = 0
C18_AsClaimed ==
  C18_ArmingFailed =>
    /\ cand.out = "consumed"
    /\ NSteps = 0 => KeyState = NoEdgeWinPressed
    /\ cand.sent = 0

\* C19: a failure of SetPriorityClass / SetThreadPriority or of VirtualLock
\* never makes the process exit: after it the process exits only for a
\* failure of LoadLibrary, of the resolution or of SetWindowsHookExA, or when
\* GetMessage returns 0; and when SetWindowsHookExA succeeds the thread is in
\* messageLoop.
C19_Degraded == host.prio = "failed" \/ host.lock = "failed"
C19_NonFatal ==
  C19_Degraded =>
    /\ pc = "exit" =>
         \/ host.code = 1 /\ host.load = "failed"
         \/ host.code = 2 /\ host.resolve = "failed"
         \/ host.code = 3 /\ host.hook = "failed"
         \/ host.code = 0 /\ host.got = "quit"
    /\ host.hook = "ok" => (pc \in {"get", "dispatch"} \/ host.got = "quit")
C19_Witness ==
  /\ host.prio = "failed"
  /\ host.lock = "failed"
  /\ host.hook = "ok"
  /\ pc = "dispatch"

\* C20 (as claimed): when the log cannot be opened, DllMain still succeeds:
\* LoadLibrary does not fail for it and the host does not exit with code 1.
C20_Attached == logSink = "unavailable" /\ host.attach # "none"
C20_AsClaimed ==
  C20_Attached => (host.attach = "true" /\ host.load = "ok" /\ host.code # 1)

\* C21 (as claimed): in every reachable state data.TimerID is non-null only
\* if the state is WinPressed; in Idle, IgnoreKeyEvents and WaitWinRelease it
\* is 0.
C21_AsClaimed == TimerID # 0 => KeyState = NoEdgeWinPressed

\* C21 (amended): in every reachable state data.TimerID is the id of an
\* existing timer only if the state is WinPressed; in the other states it is
\* 0 or the id of a timer that KillTimer has destroyed.
C21_Amended == TimerID \in timers => KeyState = NoEdgeWinPressed
C21_Witness ==
  /\ KeyState = NoEdgeIdle
  /\ TimerID # 0
  /\ TimerID \notin timers
  /\ IsEvent /\ lastCall.pre = NoEdgeWinPressed /\ lastCall.killed = TimerID

\* C22: after any sequence of hook calls and timer messages at most one timer
\* that SetTimer created has not been killed.
C22_OneTimer == Cardinality(timers) <= 1
C22_Witness ==
  /\ watch = "cand"
  /\ cand.again
  /\ KeyState = NoEdgeWinPressed
  /\ Cardinality(timers) = 1

\* C23: every HC_ACTION call in WinPressed kills the timer whose id is stored
\* before it leaves the state, so a timer that has not been killed exists
\* only while the state is WinPressed, never in Idle, IgnoreKeyEvents or
\* WaitWinRelease.
C23_InWinPressed == IsEvent /\ lastCall.pre = NoEdgeWinPressed
C23_KilledFirst ==
  /\ C23_InWinPressed => (timers = {} /\ KeyState # NoEdgeWinPressed)
  /\ C23_InWinPressed /\ TimerID # 0 => lastCall.killed = TimerID
  /\ timers # {} => KeyState = NoEdgeWinPressed
C23_Witness ==
  /\ C23_InWinPressed
  /\ lastCall.killed # 0
  /\ KeyState = NoEdgeIgnoreKeyEvents
  /\ timers = {}

\* C24: SetTimerTick, called in any state, changes only LastKey.ki.time and
\* leaves KeyState, TimerID, Timeout and every other field of LastKey as they
\* were; a time stamp it stored while no key-down was pending does not reach
\* a later SendInput, because the next capture in Idle overwrites it with the
\* time stamp of the captured event.
IsTick == watch = "call" /\ lastCall.op = "tick"
C24_Capture ==
  /\ IsEvent
  /\ lastCall.pre = NoEdgeIdle
  /\ lastCall.wp = WM_KEYDOWN /\ IsLWin(lastCall.hs)
C24_OnlyTime ==
  /\ IsTick =>
       /\ pc = "dispatch" /\ msg.message = WM_TIMER
       /\ KeyState = lastCall.data.KeyState
       /\ TimerID = lastCall.data.TimerID
       /\ Timeout = lastCall.data.Timeout
       /\ LastKey = [lastCall.data.LastKey EXCEPT !.time = msg.time]
  /\ C24_Capture => LastKey.time = lastCall.hs.time
C24_Witness ==
  /\ IsTick
  /\ lastCall.pre = NoEdgeIdle
  /\ lastCall.data.LastKey.wVk = LWin
  /\ lastCall.data.LastKey.dwFlags = KEYEVENTF_EXTENDEDKEY
  /\ lastCall.data.LastKey.time # msg.time
  /\ LastKey.time = msg.time
  /\ TimerID # 0

\* C25: a LEFT-WINDOWS key-down accepted in Idle and followed directly, before
\* the timer procedure sent anything, by the key-up of the key gives no
\* event to the next hook: both calls return -1, the timer is killed,
\* SendInput is not called and the state is Idle again.
C25_Tap ==
  /\ watch = "cand"
  /\ cand.first.class = "winUp"
  /\ ~cand.first.inj
  /\ cand.first.sent = 0
C25_TapLost ==
  C25_Tap =>
    /\ cand.out = "consumed"
    /\ cand.first.out = "consumed"
    /\ cand.first.post = NoEdgeIdle
    /\ cand.fwd = 0
    /\ cand.sent = 0
    /\ timers = {}
    /\ KeyState = NoEdgeIdle
C25_Witness ==
  /\ C25_Tap
  /\ ~Injected(cand.orig)
  /\ NSteps = 1
  /\ TimerID # 0
  /\ msgQueue = <<>>
  /\ inflight = <<>>

\* C26 (as claimed): in every run that reaches messageLoop the host has
\* passed both ranges that GetDllInfo reported (the code of the module and
\* its data block) to VirtualLock before SetWindowsHookExA, whether or not an
\* earlier VirtualLock failed.
C26_InLoop == watch = "host" /\ pc \in {"get", "dispatch"} /\ host.hook = "ok"
C26_AsClaimed ==
  C26_InLoop =>
    /\ [addr |-> info.addr0, len |-> info.len0] \in host.submitted
    /\ [addr |-> info.addr1, len |-> info.len1] \in host.submitted

\* C27: from every state, after an HC_ACTION call of the hook for the key-up
\* of the LEFT-WINDOWS key (WM_KEYUP, scan code and virtual-key code 0x5B)
\* the state is Idle.
C27_KeyUp == IsEvent /\ lastCall.wp = WM_KEYUP /\ IsLWin(lastCall.hs)
C27_ToIdle == C27_KeyUp => KeyState = NoEdgeIdle
C27_Witness ==
  /\ C27_KeyUp
  /\ lastCall.pre = NoEdgeIgnoreKeyEvents
  /\ KeyState = NoEdgeIdle

\* C28: an HC_ACTION call passes a WM_KEYDOWN of the LEFT-WINDOWS key to the
\* next hook only when the state after the call is WaitWinRelease, and
\* returns -1 for a WM_KEYUP of the key only when the state before the call
\* is WinPressed or IgnoreKeyEvents; so, going by the WM_KEYDOWN and WM_KEYUP
\* events of the key that reached the next hook, the key is down there only
\* while the state is WaitWinRelease.
C28_DownPassed ==
  IsEvent /\ lastCall.wp = WM_KEYDOWN /\ IsLWin(lastCall.hs) /\ lastCall.ret = "next"
C28_UpConsumed ==
  IsEvent /\ lastCall.wp = WM_KEYUP /\ IsLWin(lastCall.hs) /\ lastCall.ret = "consumed"
C28_DownOnlyWaiting ==
  /\ C28_DownPassed => KeyState = NoEdgeWaitWinRelease
  /\ C28_UpConsumed => lastCall.pre \in {NoEdgeWinPressed, NoEdgeIgnoreKeyEvents}
  /\ (watch = "keys" /\ keyDown) => KeyState = NoEdgeWaitWinRelease
C28_Witness ==
  /\ watch = "keys"
  /\ keyDown
  /\ KeyState = NoEdgeWaitWinRelease
  /\ inflight = <<>>
  /\ timers = {}

\* C29 (as claimed): once SendInput was called for a pending key-down, the
\* key-up from the keyboard that ends that press is passed to the next hook
\* and not consumed, whether it reaches the hook before the event SendInput
\* inserted or after it.
C29_UpBeforeEcho ==
  /\ watch = "cand"
  /\ cand.first.class = "winUp" /\ ~cand.first.inj
  /\ cand.first.sent >= 1
C29_UpAfterEcho ==
  /\ watch = "cand"
  /\ NSteps = 2
  /\ cand.first.class = "winDown" /\ cand.first.inj /\ cand.first.sent >= 1
  /\ cand.last.class = "winUp" /\ ~cand.last.inj
C29_AsClaimed ==
  /\ C29_UpBeforeEcho => cand.first.out = "next"
  /\ C29_UpAfterEcho => cand.last.out = "next"

\* C30: when the code is not HC_ACTION the hook passes the call to the next
\* hook and changes none of KeyState, LastKey and TimerID, in every state; in
\* WinPressed it does not kill the timer.
C30_NoAction == IsHookCall /\ lastCall.code # HC_ACTION
C30_PassThrough ==
  C30_NoAction =>
    /\ Forwarded
    /\ KeyState = lastCall.pre
    /\ data = lastCall.data
    /\ lastCall.armed = 0
    /\ lastCall.killed = 0
    /\ (KeyState = NoEdgeWinPressed /\ TimerID # 0) => TimerID \in timers
C30_Witness ==
  /\ C30_NoAction
  /\ lastCall.pre = NoEdgeWinPressed
  /\ lastCall.wp = WM_KEYUP /\ IsLWin(lastCall.hs)
  /\ TimerID \in timers
  /\ Forwarded

\* C31: a WM_SYSKEYDOWN or WM_SYSKEYUP is never taken for an event of the
\* LEFT-WINDOWS key, even with scan code and virtual-key code 0x5B: such a
\* WM_SYSKEYDOWN in Idle is passed on and starts nothing, in WinPressed it
\* leads to IgnoreKeyEvents, and such a WM_SYSKEYUP in IgnoreKeyEvents or
\* WaitWinRelease leaves the state as it is.
C31_SysDown == IsEvent /\ lastCall.wp = WM_SYSKEYDOWN /\ IsLWin(lastCall.hs)
C31_SysUp == IsEvent /\ lastCall.wp = WM_SYSKEYUP /\ IsLWin(lastCall.hs)
C31_SysNotTrigger ==
  /\ C31_SysDown /\ lastCall.pre = NoEdgeIdle =>
       /\ Forwarded
       /\ KeyState = NoEdgeIdle
       /\ lastCall.armed = 0
       /\ timers = {}
  /\ C31_SysDown /\ lastCall.pre = NoEdgeWinPressed =>
       KeyState = NoEdgeIgnoreKeyEvents
  /\ C31_SysUp /\ lastCall.pre \in {NoEdgeIgnoreKeyEvents, NoEdgeWaitWinRelease} =>
       KeyState = lastCall.pre
C31_Witness ==
  /\ C31_SysDown
  /\ lastCall.pre = NoEdgeWinPressed
  /\ lastCall.killed # 0
  /\ Suppressed
  /\ KeyState = NoEdgeIgnoreKeyEvents

TypeOK ==
  /\ KeyState \in KeyStates
  /\ TimerID \in {0} \cup TimerIds
  /\ Timeout \in MinTimeout..MaxTimeout
  /\ timers \subseteq TimerIds
  /\ Len(msgQueue) <= MaxQueue
  /\ Len(inflight) <= MaxInflight
  /\ pc \in {"get", "dispatch"}
  /\ watch \in {"call", "cand", "keys"}
  /\ keyDown \in BOOLEAN
====
